---------------------------- MODULE Spec2Model ----------------------------
(***************************************************************************)
(* The clause extraction, tagging, scoring, deduplication and ranking      *)
(* engine of the terms-and-conditions analyzer: pipeline.process_document  *)
(* with the helpers of utils.py and the summarization adapter.             *)
(*                                                                         *)
(* Text is a sequence of one-character strings, so that lower-casing,      *)
(* substring search, strip, join and len are computed, not assumed.        *)
(*                                                                         *)
(* process_document calls tag_sentence(s, keywords) for a mapping          *)
(* category -> keywords and risk_for_sentence(s, risk_scores) with two     *)
(* arguments, and imports clean_text.  utils.py defines a tag_sentence     *)
(* that returns a list of names, a risk_for_sentence of one argument and   *)
(* no clean_text.  Both are modelled: helpers = "src" links the call       *)
(* sites with utils.py as it is, helpers = "spec" with the tagger and      *)
(* scorer the call sites are written for (tagger, scorer below);           *)
(* clean_text is the Text Normalizer of the design in both.                *)
(***************************************************************************)
EXTENDS Integers, Sequences, FiniteSets, TLC

VARIABLES
    text_pages,        \* process_document's argument: pages in dict order, <<[num, text]>>
    config,            \* process_document's argument: a dict with optional keys
    helpers,           \* which tagger/scorer the pipeline is linked with: "src" | "spec"
    pc,                \* position in process_document (or in the band call of BandCall)
    per_cat,           \* pipeline.py:50  category -> list of clause records
    full_cleaned_text, \* pipeline.py:51
    cat_idx,           \* position of the loop of pipeline.py:69 in `categories`
    top_clauses,       \* pipeline.py:73, of the category being handled
    categories_out,    \* pipeline.py:67
    all_top_clauses,   \* pipeline.py:68
    ai_summary,        \* pipeline.py:85
    result,            \* the returned dict, pipeline.py:99-104
    fault,             \* the exception that left process_document, or "none"
    events,            \* what has happened so far, in order
    band_in,           \* the two scores of a direct call of band
    band_out,          \* their bands
    risk_level         \* app.py:113-119  the level the gauge shows for the result

vars == <<text_pages, config, helpers, pc, per_cat, full_cleaned_text, cat_idx,
          top_clauses, categories_out, all_top_clauses, ai_summary, result,
          fault, events, band_in, band_out, risk_level>>

----------------------------------------------------------------------------
(* Sequences *)

Range(s) == {s[i] : i \in 1..Len(s)}

Take(s, n) == SubSeq(s, 1, IF n < Len(s) THEN n ELSE Len(s))

RECURSIVE Concat(_)
Concat(ss) == IF ss = <<>> THEN <<>> ELSE Head(ss) \o Concat(Tail(ss))

RECURSIVE SumSeq(_)
SumSeq(s) == IF s = <<>> THEN 0 ELSE Head(s) + SumSeq(Tail(s))

----------------------------------------------------------------------------
(* Python str operations on sequences of characters *)

\* the cased characters of Latin-1 and what str.lower() makes of them; the
\* characters beyond Latin-1 cannot be written in a string of a module
UpperCase == <<"A","B","C","D","E","F","G","H","I","J","K","L","M",
               "N","O","P","Q","R","S","T","U","V","W","X","Y","Z",
               "À","Á","Â","Ã","Ä","Å","Æ","Ç","È","É","Ê","Ë","Ì",
               "Í","Î","Ï","Ð","Ñ","Ò","Ó","Ô","Õ","Ö","Ø","Ù","Ú",
               "Û","Ü","Ý","Þ">>
LowerCase == <<"a","b","c","d","e","f","g","h","i","j","k","l","m",
               "n","o","p","q","r","s","t","u","v","w","x","y","z",
               "à","á","â","ã","ä","å","æ","ç","è","é","ê","ë","ì",
               "í","î","ï","ð","ñ","ò","ó","ô","õ","ö","ø","ù","ú",
               "û","ü","ý","þ">>

LowerChar(c) ==
    IF \E i \in 1..Len(UpperCase) : UpperCase[i] = c
    THEN LowerCase[CHOOSE i \in 1..Len(UpperCase) : UpperCase[i] = c]
    ELSE c

\* str.lower()
lower(s) == [i \in 1..Len(s) |-> LowerChar(s[i])]

\* k in s
Contains(s, k) ==
    \E i \in 0..(Len(s) - Len(k)) : SubSeq(s, i + 1, i + Len(k)) = k

\* the characters str.isspace() and the \s of re hold for a str, as far as
\* Latin-1: space, LF, TAB, CR, FF, then VT, FS, GS, RS, US, NEL and NBSP
\* written as the characters themselves (U+1680, U+2000..U+200A, U+2028,
\* U+2029, U+202F, U+205F and U+3000 cannot be written in a module)
WhiteSpace ==
    {" ", "\n", "\t", "\r", "\f",
     "", "", "", "", "", "", " "}

\* s without its leading and trailing characters of the set ws
StripChars(s, ws) ==
    IF \A i \in 1..Len(s) : s[i] \in ws THEN <<>>
    ELSE SubSeq(s,
                CHOOSE i \in 1..Len(s) :
                    s[i] \notin ws /\ \A j \in 1..(i - 1) : s[j] \in ws,
                CHOOSE i \in 1..Len(s) :
                    s[i] \notin ws /\ \A j \in (i + 1)..Len(s) : s[j] \in ws)

\* str.strip()
strip(s) == StripChars(s, WhiteSpace)

\* bytes.strip(): ASCII whitespace only (space, TAB, LF, CR, VT, FF)
BytesWhiteSpace == {" ", "\t", "\n", "\r", "\f", ""}
bytes_strip(s) == StripChars(s, BytesWhiteSpace)

\* " ".join(parts)
RECURSIVE JoinSpace(_)
JoinSpace(parts) ==
    IF parts = <<>> THEN <<>>
    ELSE IF Len(parts) = 1 THEN parts[1]
    ELSE parts[1] \o <<" ">> \o JoinSpace(Tail(parts))

\* str(n) for a page number
Digit == <<"0","1","2","3","4","5","6","7","8","9">>
RECURSIVE Digits(_)
Digits(n) == IF n < 10 THEN <<Digit[n + 1]>> ELSE Digits(n \div 10) \o <<Digit[(n % 10) + 1]>>

----------------------------------------------------------------------------
(* utils.py *)

\* the characters of t at the indices that satisfy Keep, in order
Indices(t) == [i \in 1..Len(t) |-> i]

\* Text Normalizer: (a) a hyphen followed by a line break is deleted with the break
Dehyphenate(t) ==
    LET kept == SelectSeq(Indices(t), LAMBDA i :
                    /\ ~(t[i] = "-" /\ i < Len(t) /\ t[i + 1] = "\n")
                    /\ ~(t[i] = "\n" /\ i > 1 /\ t[i - 1] = "-"))
    IN  [k \in 1..Len(kept) |-> t[kept[k]]]

\* (b) a single line break, not part of a blank-line paragraph break, becomes a space
JoinLines(t) ==
    [i \in 1..Len(t) |->
        IF t[i] = "\n" /\ (i = 1 \/ t[i - 1] # "\n") /\ (i = Len(t) \/ t[i + 1] # "\n")
        THEN " " ELSE t[i]]

\* (c) non-printable control characters are removed: the control characters
\* among WhiteSpace other than the line break, which rules (b) and (d) handle
ControlChars == WhiteSpace \ {" ", "\n", " "}
StripControl(t) == SelectSeq(t, LAMBDA c : c \notin ControlChars)

\* (d) a run of two or more whitespace characters becomes one space
CollapseSpace(t) ==
    LET kept == SelectSeq(Indices(t), LAMBDA i :
                    ~(t[i] \in WhiteSpace /\ i > 1 /\ t[i - 1] \in WhiteSpace))
    IN  [k \in 1..Len(kept) |->
            IF t[kept[k]] \in WhiteSpace /\ kept[k] < Len(t) /\ t[kept[k] + 1] \in WhiteSpace
            THEN " " ELSE t[kept[k]]]

\* clean_text: rules (a)..(d) in order, then (e) trim
clean_text(t) == strip(CollapseSpace(StripControl(JoinLines(Dehyphenate(t)))))

Terminal == {".", "!", "?"}

\* re.split(r"(?<=[.!?])\s+", text): the pieces between the separators, a
\* separator being a whitespace run that starts right after a terminal mark
\* (a run with nothing but separators around it yields only empty pieces, which
\* sentences() drops)
SplitSentences(t) ==
    LET runStart(i) == CHOOSE j \in 1..i :
                          /\ \A k \in j..i : t[k] \in WhiteSpace
                          /\ (j = 1 \/ t[j - 1] \notin WhiteSpace)
        sep == [i \in 1..Len(t) |->
                   /\ t[i] \in WhiteSpace
                   /\ runStart(i) > 1
                   /\ t[runStart(i) - 1] \in Terminal]
        starts == SelectSeq(Indices(t), LAMBDA i : ~sep[i] /\ (i = 1 \/ sep[i - 1]))
        stop(i) == CHOOSE j \in i..Len(t) :
                      /\ (j = Len(t) \/ sep[j + 1])
                      /\ \A k \in i..j : ~sep[k]
    IN  [k \in 1..Len(starts) |-> SubSeq(t, starts[k], stop(starts[k]))]

\* [s.strip() for s in re.split(...) if s.strip()]
sentences(t) ==
    LET pieces   == SplitSentences(t)
        stripped == [i \in 1..Len(pieces) |-> strip(pieces[i])]
    IN  SelectSeq(stripped, LAMBDA p : p # <<>>)

\* tag_sentence of utils.py: the names of the categories with a matching keyword
\* (the inner loop stops at the first hit; no keyword is recorded)
tag_sentence(sentence, keywords) ==
    LET s    == lower(sentence)
        hit  == [i \in 1..Len(keywords) |->
                    \E j \in 1..Len(keywords[i][2]) : Contains(s, lower(keywords[i][2][j]))]
        cats == [i \in 1..Len(keywords) |-> IF hit[i] THEN <<keywords[i][1]>> ELSE <<>>]
    IN  Concat(cats)

\* Category Tagger as process_document uses it (matched_cats.items()): matched
\* category -> the keywords of that category found in the sentence, in order
tagger(sentence, keywords) ==
    LET s    == lower(sentence)
        trig == [i \in 1..Len(keywords) |->
                    SelectSeq(keywords[i][2], LAMBDA kw : Contains(s, lower(kw)))]
        cats == [i \in 1..Len(keywords) |->
                    IF trig[i] # <<>> THEN << <<keywords[i][1], trig[i]>> >> ELSE <<>>]
    IN  Concat(cats)

\* Risk Scorer as process_document uses it (two arguments): the sum of the points
\* of every weight-table key found in the sentence, and those keys
scorer(sentence, risk_scores) ==
    LET s    == lower(sentence)
        hits == SelectSeq(risk_scores, LAMBDA e : Contains(s, lower(e[1])))
    IN  <<SumSeq([i \in 1..Len(hits) |-> hits[i][2]]), [i \in 1..Len(hits) |-> hits[i][1]]>>

HighThreshold == 6
MediumThreshold == 3

\* band with the High threshold exclusive
band_exclusive(score) ==
    IF score > HighThreshold THEN "High"
    ELSE IF score >= MediumThreshold THEN "Medium"
    ELSE "Low"

\* band of utils.py
band(score) ==
    IF score >= HighThreshold THEN "High"
    ELSE IF score >= MediumThreshold THEN "Medium"
    ELSE "Low"

\* provenance_dict of utils.py; location stands for f"Page {page_num}"
provenance_dict(snippet, location) == [snippet |-> snippet, location |-> location]

----------------------------------------------------------------------------
(* The inputs process_document is called with *)

MaxPages == 2

We    == <<"W","e">>
sell  == <<"s","e","l","l">>
share == <<"s","h","a","r","e">>
Share == <<"S","h","a","r","e">>
fee   == <<"f","e","e">>
free  == <<"f","r","e","e">>
end   == <<"e","n","d">>
party == <<"p","a","r","t","y">>

\* a sentence: its words joined by spaces, closed by a full stop
Sentence(words) == JoinSpace(words) \o <<".">>

\* nine distinct clauses that all hold "share"; scores 1, 6, 3, 1, 4, -1, 9, 1, 3
\* under RiskTable, the 5th and the 7th hold "end" as well, the 8th "party"
Clauses ==
    << Sentence(<<We, share, <<"a">> >>),
       Sentence(<<We, sell, share, <<"b">> >>),
       Sentence(<<share, fee, <<"c">> >>),
       Sentence(<<Share, <<"d">> >>),
       Sentence(<<share, end, <<"e">> >>),
       Sentence(<<free, share, <<"f">> >>),
       Sentence(<<sell, share, end, <<"g">> >>),
       Sentence(<<share, party, <<"h">> >>),
       Sentence(<<share, fee, fee, <<"i">> >>) >>

TheEnd   == Sentence(<< <<"T","h","e">>, end >>)
Hello    == Sentence(<< <<"H","e","l","l","o">> >>)
WeShareA == Sentence(<< <<"W","E">>, <<"S","H","A","R","E">>, <<"A">> >>)

\* page_text is None
None == <<"None">>

\* "We sha-\nre a.\nThe  end.\n\nHello.\t" : what the normalizer has to undo
RawPage ==
    <<"W","e"," ","s","h","a","-","\n","r","e"," ","a",".","\n">>
    \o <<"T","h","e"," "," ","e","n","d",".","\n","\n">> \o Hello \o <<"\t">>

PageTexts ==
    { None,
      JoinSpace(Clauses),
      JoinSpace(SubSeq(Clauses, 1, 4)),
      JoinSpace(<<Clauses[7], Clauses[5], Clauses[9], Clauses[8]>>),
      JoinSpace(<<Clauses[1], TheEnd, Clauses[1]>>),
      JoinSpace(<<WeShareA, Hello>>),
      RawPage }

RECURSIVE PageSeqs(_)
PageSeqs(n) ==
    IF n = 0 THEN {<<>>}
    ELSE LET shorter == PageSeqs(n - 1)
         IN  shorter \cup {Append(ps, t) : ps \in {q \in shorter : Len(q) = n - 1}, t \in PageTexts}

\* text_pages: pages 1..n in dict order, n <= MaxPages
Documents ==
    {[i \in 1..Len(ps) |-> [num |-> i, text |-> ps[i]]] : ps \in PageSeqs(MaxPages)}

Keywords ==
    << <<"Data Sharing", <<share, party>> >>, <<"Termination", <<end>> >> >>

RiskTable ==
    << <<share, 1>>, <<sell, 5>>, <<end, 3>>, <<fee, 2>>, <<free, -2>> >>

\* config: a dict whose keys may be missing
Configs ==
    { [categories |-> <<"Data Sharing", "Termination">>, keywords |-> Keywords,
       risk_scores |-> RiskTable],
      \* "Refunds" is declared but has no keywords; declared order differs from keywords'
      [categories |-> <<"Termination", "Refunds", "Data Sharing">>, keywords |-> Keywords,
       risk_scores |-> RiskTable],
      \* "Termination" has keywords but is not declared
      [categories |-> <<"Data Sharing">>, keywords |-> Keywords, risk_scores |-> RiskTable],
      \* no risk table, and a category with an empty keyword list
      [categories |-> <<"Data Sharing", "Termination">>,
       keywords |-> << <<"Data Sharing", <<share, party>> >>, <<"Termination", <<>> >> >>],
      \* the empty config {}
      [x \in {} |-> <<>>] }

\* dict.get(key, default)
Get(d, key, default) == IF key \in DOMAIN d THEN d[key] ELSE default

----------------------------------------------------------------------------
(* The summarization adapter, pipeline.py:12-42 *)

\* a Python value: its type, and the part of a value of that type that holds
\* it -- the characters of a str or bytes, the number of an int, the elements of
\* a list, the keys and the values of a dict (the other parts are empty)
PyVal(type, chars, n, items, keys) ==
    [type |-> type, value |-> chars, num |-> n, items |-> items, keys |-> keys]

PyStr(chars)   == PyVal("str", chars, 0, <<>>, <<>>)
PyInt(n)       == PyVal("int", <<>>, n, <<>>, <<>>)
PyList(xs)     == PyVal("list", <<>>, 0, xs, <<>>)
PyDict(ks, vs) == PyVal("dict", <<>>, 0, vs, ks)
PyBytes(chars) == PyVal("bytes", chars, 0, <<>>, <<>>)
PyNone         == PyVal("NoneType", <<>>, 0, <<>>, <<>>)

\* an exception instance of class cls
PyExc(cls) == PyVal(cls, <<>>, 0, <<>>, <<>>)

\* d.get(key) of a dict d
DictGet(d, key) ==
    IF \E i \in 1..Len(d.keys) : d.keys[i] = key
    THEN d.items[CHOOSE i \in 1..Len(d.keys) : d.keys[i] = key]
    ELSE PyNone

\* the exception classes of the builtins and of asyncio that derive from
\* BaseException but not from Exception: `except Exception` does not catch them
NotAnException ==
    {"BaseException", "BaseExceptionGroup", "CancelledError", "GeneratorExit",
     "KeyboardInterrupt", "SystemExit"}

\* bool(v)
Truthy(v) ==
    CASE v.type = "NoneType" -> FALSE
      [] v.type = "int"      -> v.num # 0
      [] v.type = "str"      -> v.value # <<>>
      [] v.type = "bytes"    -> v.value # <<>>
      [] v.type = "list"     -> v.items # <<>>
      [] v.type = "dict"     -> v.keys # <<>>

Padded == <<" ","o","k"," ","\n">>
Blank  == <<" "," ">>

\* what a call of the external summarizer may do: raise an exception (one that
\* is an Exception or one that is not), or return a value
SummarizerOutcomes ==
    { [raises |-> TRUE,  value |-> PyExc("RuntimeError")],
      [raises |-> TRUE,  value |-> PyExc("KeyboardInterrupt")],
      [raises |-> TRUE,  value |-> PyExc("SystemExit")],
      [raises |-> TRUE,  value |-> PyExc("GeneratorExit")],
      [raises |-> TRUE,  value |-> PyExc("BaseException")],
      [raises |-> TRUE,  value |-> PyExc("BaseExceptionGroup")],
      [raises |-> TRUE,  value |-> PyExc("CancelledError")],
      [raises |-> FALSE, value |-> PyNone],
      [raises |-> FALSE, value |-> PyList(<<>>)],
      [raises |-> FALSE, value |-> PyDict(<<"summary_text">>, <<PyStr(Padded)>>)],
      [raises |-> FALSE, value |-> PyList(<<PyNone>>)],
      [raises |-> FALSE, value |-> PyList(<<PyDict(<<>>, <<>>)>>)],
      [raises |-> FALSE, value |-> PyList(<<PyDict(<<"other">>, <<PyStr(Padded)>>)>>)],
      [raises |-> FALSE, value |-> PyList(<<PyDict(<<"summary_text">>, <<PyStr(<<>>)>>)>>)],
      [raises |-> FALSE, value |-> PyList(<<PyDict(<<"summary_text">>, <<PyNone>>)>>)],
      [raises |-> FALSE, value |-> PyList(<<PyDict(<<"summary_text">>, <<PyStr(Padded)>>)>>)],
      [raises |-> FALSE, value |-> PyList(<<PyDict(<<"summary_text">>, <<PyStr(Blank)>>)>>)],
      [raises |-> FALSE, value |-> PyList(<<PyDict(<<"summary_text">>, <<PyInt(5)>>)>>)],
      [raises |-> FALSE, value |-> PyList(<<PyDict(<<"summary_text">>, <<PyBytes(Padded)>>)>>)],
      [raises |-> FALSE, value |-> PyList(<<PyStr(Padded)>>)] }

\* the summarizer is not reached by the call
NotCalled == [raises |-> FALSE, value |-> PyNone]

Returns(v) == [kind |-> "return", value |-> v]
Raises(e)  == [kind |-> "raise", value |-> PyStr(<<e>>)]

NoSummaryText == PyStr(<<"AI summary could not be generated for this section.">>)
SummaryError  == PyStr(<<"An error occurred during AI summarization.">>)

\* pipeline.py:17-20, the body of the try block
SummarizeBody(outcome) ==
    IF outcome.raises THEN Raises(outcome.value.type)
    ELSE
      LET res == outcome.value IN
      IF Truthy(res) /\ res.type = "list" /\ Truthy(res.items[1])
      THEN \* res[0].get("summary_text")
           IF res.items[1].type # "dict" THEN Raises("AttributeError")
           ELSE LET summary == DictGet(res.items[1], "summary_text") IN
                IF ~Truthy(summary) THEN Returns(NoSummaryText)
                ELSE IF summary.type = "str" THEN Returns(PyStr(strip(summary.value)))
                ELSE IF summary.type = "bytes"
                     THEN Returns(PyBytes(bytes_strip(summary.value)))
                ELSE Raises("AttributeError")
      ELSE Returns(NoSummaryText)

\* the try block without its except clause
_safe_summarize_unguarded(outcome) == SummarizeBody(outcome)

\* _safe_summarize: an Exception the try block raises is turned into a fixed
\* string (line 21, except Exception); any other exception leaves the function
_safe_summarize(outcome) ==
    LET done == SummarizeBody(outcome)
    IN  IF done.kind = "raise" /\ done.value.value[1] \notin NotAnException
        THEN Returns(SummaryError)
        ELSE done

MinSummaryInput == 50
MaxPromptText == 3000

\* the characters of a category name of Configs
CategoryChars(category) ==
    CASE category = "Data Sharing" -> <<"D","a","t","a"," ","S","h","a","r","i","n","g">>
      [] category = "Termination"  -> <<"T","e","r","m","i","n","a","t","i","o","n">>
      [] category = "Refunds"      -> <<"R","e","f","u","n","d","s">>

\* line 28: the message names category.lower()
TooShortCategory(category) ==
    PyStr(<<"This section on ">> \o lower(CategoryChars(category))
          \o <<" may contain important clauses but is too short to summarize.">>)
TooShortGlobal ==
    PyStr(<<"The document contains several clauses of interest but is too short for a global summary.">>)

\* whether summarize_text_for_risk / create_global_summary reach the summarizer
InvokesSummarizer(text) == Len(strip(text)) >= MinSummaryInput

\* the text the prompt carries: text.strip()[:3000]
PromptText(text) == Take(strip(text), MaxPromptText)

\* summarize_text_for_risk(category, text), the summarizer doing `outcome` if called
summarize_text_for_risk(category, text, outcome) ==
    IF ~InvokesSummarizer(text) THEN Returns(TooShortCategory(category))
    ELSE _safe_summarize(outcome)

\* create_global_summary(text), the summarizer doing `outcome` if called
create_global_summary(text, outcome) ==
    IF ~InvokesSummarizer(text) THEN Returns(TooShortGlobal)
    ELSE _safe_summarize(outcome)

----------------------------------------------------------------------------
(* process_document, pipeline.py:44-104 *)

Categories == Get(config, "categories", <<>>)
KeywordMap == Get(config, "keywords", <<>>)
RiskScores == Get(config, "risk_scores", <<>>)

\* sentences(clean_text(page_text or ""))
PageSentences(page) ==
    sentences(clean_text(IF page.text = None THEN <<>> ELSE page.text))

\* the sentences of all pages in the order the two loops of lines 53-57 visit them
SentenceRecords(pages) ==
    Concat([i \in 1..Len(pages) |->
        LET ss == PageSentences(pages[i])
        IN  [j \in 1..Len(ss) |-> [num |-> pages[i].num, text |-> ss[j]]]])

\* the dict appended at lines 62-65
ClauseRecord(s, num, triggers, score) ==
    [text |-> s, risk |-> band(score), rationale |-> triggers,
     provenance |-> provenance_dict(s, <<"Page", num>>), score |-> score]

\* per_cat[cat] after the loop of lines 53-65, with the tagger and scorer the
\* call sites of lines 58-61 are written for
TaggedInto(cat, srecs, keywords, risk_scores) ==
    Concat([i \in 1..Len(srecs) |->
        LET matched_cats == tagger(srecs[i].text, keywords)
            score        == scorer(srecs[i].text, risk_scores)[1]
        IN  Concat([j \in 1..Len(matched_cats) |->
                IF matched_cats[j][1] = cat
                THEN <<ClauseRecord(srecs[i].text, srecs[i].num, matched_cats[j][2], score)>>
                ELSE <<>>])])

\* the exception lines 58-65 end in, or "none"
\*   helpers = "src":  tag_sentence returns a non-empty list for a tagged sentence and
\*                     risk_for_sentence(s, risk_scores) is a call with one argument too many
\*   helpers = "spec": per_cat[cat] has no entry for a category that is not declared
TaggingFault(linked, srecs, keywords, categories) ==
    IF linked = "src"
    THEN IF \E i \in 1..Len(srecs) : tag_sentence(srecs[i].text, keywords) # <<>>
         THEN "TypeError" ELSE "none"
    ELSE IF \E i \in 1..Len(srecs) :
              \E j \in 1..Len(tagger(srecs[i].text, keywords)) :
                  tagger(srecs[i].text, keywords)[j][1] \notin Range(categories)
         THEN "KeyError" ELSE "none"

\* "\n--- Page {page_num} ---\n{cleaned_page_text}"
PageBlock(page) ==
    <<"\n","-","-","-"," ","P","a","g","e"," ">> \o Digits(page.num)
    \o <<" ","-","-","-","\n">>
    \o clean_text(IF page.text = None THEN <<>> ELSE page.text)

\* sorted(items, key=lambda x: -x["score"]): stable, descending score
RECURSIVE InsertByScore(_, _)
InsertByScore(sorted, x) ==
    IF sorted = <<>> THEN <<x>>
    ELSE IF Head(sorted).score >= x.score THEN <<Head(sorted)>> \o InsertByScore(Tail(sorted), x)
    ELSE <<x>> \o sorted

RECURSIVE SortedByScore(_)
SortedByScore(items) ==
    IF items = <<>> THEN <<>>
    ELSE InsertByScore(SortedByScore(SubSeq(items, 1, Len(items) - 1)), items[Len(items)])

\* line 70 without the sort
SortedItems_unsorted(items) == items

\* line 70: items
SortedItems(items) == SortedByScore(items)

\* list({item['text']: item for item in items}.values()): one entry per text, at
\* the place of the text's first item, holding the text's last item
DedupByText(items) ==
    LET firsts == SelectSeq([i \in 1..Len(items) |-> i],
                            LAMBDA i : \A j \in 1..(i - 1) : items[j].text # items[i].text)
        last(t) == CHOOSE i \in 1..Len(items) :
                      /\ items[i].text = t
                      /\ \A j \in (i + 1)..Len(items) : items[j].text # t
    IN  [k \in 1..Len(firsts) |-> items[last(items[firsts[k]].text)]]

\* line 72 without the deduplication
UniqueClauses_keep_all(items) == items

\* line 72: unique_clauses
UniqueClauses(items) == DedupByText(items)

\* line 84 without the deduplication
UniqueAllTop_keep_all(all_top) == all_top

\* line 84: the selected clauses of all categories, deduplicated by text
UniqueAllTop(all_top) == DedupByText(all_top)

MaxBullets == 7

\* line 73 without the cap
TopClauses_uncapped(unique_clauses) == unique_clauses

\* unique_clauses[:min(7, len(unique_clauses))]
TopClauses(unique_clauses) ==
    SubSeq(unique_clauses, 1,
           IF MaxBullets < Len(unique_clauses) THEN MaxBullets ELSE Len(unique_clauses))

\* {"High":3,"Medium":2,"Low":1}
RiskRank(r) == CASE r = "High" -> 3 [] r = "Medium" -> 2 [] r = "Low" -> 1

\* the risk of the last selected clause instead of the highest
CategoryRisk_last(top) == top[Len(top)].risk

\* max([c["risk"] for c in top_clauses], key=...): the first of the highest rank
CategoryRisk(top) ==
    top[CHOOSE i \in 1..Len(top) :
            /\ \A j \in 1..Len(top) : RiskRank(top[j].risk) <= RiskRank(top[i].risk)
            /\ \A j \in 1..(i - 1) : RiskRank(top[j].risk) < RiskRank(top[i].risk)].risk

\* lines 90-93 with the weights counted from 0
ClauseWeight_from_zero(clause) ==
    IF clause.risk = "High" THEN 2 ELSE IF clause.risk = "Medium" THEN 1 ELSE 0

\* lines 90-93
ClauseWeight(clause) ==
    IF clause.risk = "High" THEN 3 ELSE IF clause.risk = "Medium" THEN 2 ELSE 1

MaxWeight == 3

\* lines 87-97: (weighted_score / max_possible_score) * 100 as the fraction num/den
OverallRiskScore(unique_all_top) ==
    LET total_clauses  == Len(unique_all_top)
        weighted_score == SumSeq([i \in 1..total_clauses |-> ClauseWeight(unique_all_top[i])])
        max_possible   == total_clauses * MaxWeight
    IN  IF total_clauses > 0 /\ max_possible > 0
        THEN [num |-> weighted_score * 100, den |-> max_possible]
        ELSE [num |-> 0, den |-> 1]

NoResult ==
    [ai_summary |-> PyNone, categories |-> <<>>, raw_text |-> <<>>,
     overall_risk_score |-> [num |-> 0, den |-> 1]]

InitProcess ==
    /\ text_pages \in Documents
    /\ config \in Configs
    /\ helpers \in {"src", "spec"}
    /\ pc = "start"
    /\ per_cat = <<>>
    /\ full_cleaned_text = <<>>
    /\ cat_idx = 0
    /\ top_clauses = <<>>
    /\ categories_out = <<>>
    /\ all_top_clauses = <<>>
    /\ ai_summary = PyNone
    /\ result = NoResult
    /\ fault = "none"
    /\ events = <<>>
    /\ band_in = <<0, 0>>
    /\ band_out = <<"none", "none">>
    /\ risk_level = "none"

\* lines 46-65: the per-page loop that tags and scores every sentence
TagAndScore ==
    /\ pc = "start"
    /\ LET srecs == SentenceRecords(text_pages)
           err   == TaggingFault(helpers, srecs, KeywordMap, Categories)
       IN  IF err # "none"
           THEN /\ pc' = "fault"
                /\ fault' = err
                /\ UNCHANGED <<per_cat, full_cleaned_text, cat_idx, events>>
           ELSE /\ per_cat' = [c \in Range(Categories) |->
                                  TaggedInto(c, srecs, KeywordMap, RiskScores)]
                /\ full_cleaned_text' =
                       Concat([i \in 1..Len(text_pages) |-> PageBlock(text_pages[i])])
                /\ cat_idx' = 1
                /\ pc' = IF Categories = <<>> THEN "global" ELSE "aggregate"
                /\ events' = Append(events, <<"tagged">>)
                /\ UNCHANGED fault
    /\ UNCHANGED <<text_pages, config, helpers, top_clauses, categories_out,
                   all_top_clauses, ai_summary, result, band_in, band_out, risk_level>>

\* the loop of line 69 moves on to the next category, or leaves
NextCategory(i) == IF i >= Len(Categories) THEN "global" ELSE "aggregate"

\* line 71 skipping a category of a single candidate as well
SkipsCategory_single(items) == Len(items) <= 1

\* line 71: if not items: continue
SkipsCategory(items) == items = <<>>

\* lines 70-73: sort, skip an empty category (top_clauses then keeps what the
\* last category with items left in it), deduplicate, cut to the top
AggregateCategory ==
    /\ pc = "aggregate"
    /\ LET cat   == Categories[cat_idx]
           items == SortedItems(Get(per_cat, cat, <<>>))
       IN  IF SkipsCategory(items)
           THEN /\ UNCHANGED top_clauses
                /\ cat_idx' = cat_idx + 1
                /\ pc' = NextCategory(cat_idx)
                /\ events' = Append(events, <<"skipped", cat>>)
           ELSE /\ top_clauses' = TopClauses(UniqueClauses(items))
                /\ pc' = "summarize"
                /\ events' = Append(events, <<"aggregated", cat>>)
                /\ UNCHANGED cat_idx
    /\ UNCHANGED <<text_pages, config, helpers, per_cat, full_cleaned_text,
                   categories_out, all_top_clauses, ai_summary, result, fault,
                   band_in, band_out, risk_level>>

\* lines 74-82: the category's summary, its risk and its entry of the result
SummarizeCategory ==
    /\ pc = "summarize"
    /\ LET cat              == Categories[cat_idx]
           text_for_summary == JoinSpace([i \in 1..Len(top_clauses) |-> top_clauses[i].text])
           called           == InvokesSummarizer(text_for_summary)
       IN  \E outcome \in IF called THEN SummarizerOutcomes ELSE {NotCalled} :
             LET summary == summarize_text_for_risk(cat, text_for_summary, outcome)
             IN  /\ events' = IF called THEN Append(events, <<"summarizer", cat>>) ELSE events
                 /\ IF summary.kind = "raise"
                    THEN /\ pc' = "fault"
                         /\ fault' = summary.value.value[1]
                         /\ UNCHANGED <<all_top_clauses, categories_out, cat_idx>>
                    ELSE /\ all_top_clauses' = all_top_clauses \o top_clauses
                         /\ categories_out' =
                              IF top_clauses # <<>>
                              THEN Append(categories_out,
                                          [category |-> cat,
                                           category_summary |-> summary.value,
                                           category_risk |-> CategoryRisk(top_clauses),
                                           bullets |-> top_clauses])
                              ELSE categories_out
                         /\ cat_idx' = cat_idx + 1
                         /\ pc' = NextCategory(cat_idx)
                         /\ UNCHANGED fault
    /\ UNCHANGED <<text_pages, config, helpers, per_cat, full_cleaned_text,
                   top_clauses, ai_summary, result, band_in, band_out, risk_level>>

\* lines 84-85: the document-level deduplication and the global summary
GlobalSummary ==
    /\ pc = "global"
    /\ LET unique_all_top == UniqueAllTop(all_top_clauses)
           text           == JoinSpace([i \in 1..Len(unique_all_top) |-> unique_all_top[i].text])
           called         == InvokesSummarizer(text)
       IN  \E outcome \in IF called THEN SummarizerOutcomes ELSE {NotCalled} :
             LET summary == create_global_summary(text, outcome)
             IN  /\ events' = IF called THEN Append(events, <<"summarizer", "global">>) ELSE events
                 /\ IF summary.kind = "raise"
                    THEN /\ pc' = "fault"
                         /\ fault' = summary.value.value[1]
                         /\ UNCHANGED ai_summary
                    ELSE /\ ai_summary' = summary.value
                         /\ pc' = "rollup"
                         /\ UNCHANGED fault
    /\ UNCHANGED <<text_pages, config, helpers, per_cat, full_cleaned_text, cat_idx,
                   top_clauses, categories_out, all_top_clauses, result,
                   band_in, band_out, risk_level>>

\* lines 87-104: the document risk score and the returned dict
ReturnResult ==
    /\ pc = "rollup"
    /\ result' = [ai_summary |-> ai_summary,
                  categories |-> categories_out,
                  raw_text |-> strip(full_cleaned_text),
                  overall_risk_score |-> OverallRiskScore(UniqueAllTop(all_top_clauses))]
    /\ pc' = "done"
    /\ events' = Append(events, <<"returned">>)
    /\ UNCHANGED <<text_pages, config, helpers, per_cat, full_cleaned_text, cat_idx,
                   top_clauses, categories_out, all_top_clauses, ai_summary, fault,
                   band_in, band_out, risk_level>>

----------------------------------------------------------------------------
(* The risk gauge of the page, app.py:113-119 and its call at app.py:191 *)

HighGauge == 66
ModerateGauge == 33

\* display_risk_gauge(score): the level shown.  The score is the fraction
\* num/den of OverallRiskScore; the float the code compares is that fraction
\* rounded, which lies on the same side of 66 and of 33 for every number of
\* clauses a result of this model can hold
display_risk_gauge(score) ==
    IF score.num > HighGauge * score.den THEN "High Risk"
    ELSE IF score.num > ModerateGauge * score.den THEN "Moderate Risk"
    ELSE "Low Risk"

\* app.py:191: display_risk_gauge(result.get("overall_risk_score", 0))
DisplayRiskGauge ==
    /\ pc = "done"
    /\ risk_level' = display_risk_gauge(result.overall_risk_score)
    /\ pc' = "shown"
    /\ events' = Append(events, <<"shown">>)
    /\ UNCHANGED <<text_pages, config, helpers, per_cat, full_cleaned_text, cat_idx,
                   top_clauses, categories_out, all_top_clauses, ai_summary, result,
                   fault, band_in, band_out>>

----------------------------------------------------------------------------
(* band called on its own, utils.py:54-62 *)

MinScore == 4
MaxScore == 9

\* the scores band is called with: -MinScore..MaxScore
Scores == (0 - MinScore)..MaxScore

InitBand ==
    /\ band_in \in Scores \X Scores
    /\ band_out = <<"none", "none">>
    /\ pc = "band"
    /\ text_pages = <<>>
    /\ config = [x \in {} |-> <<>>]
    /\ helpers = "src"
    /\ per_cat = <<>>
    /\ full_cleaned_text = <<>>
    /\ cat_idx = 0
    /\ top_clauses = <<>>
    /\ categories_out = <<>>
    /\ all_top_clauses = <<>>
    /\ ai_summary = PyNone
    /\ result = NoResult
    /\ fault = "none"
    /\ events = <<>>
    /\ risk_level = "none"

BandCall ==
    /\ pc = "band"
    /\ band_out' = <<band(band_in[1]), band(band_in[2])>>
    /\ pc' = "band_done"
    /\ UNCHANGED <<text_pages, config, helpers, per_cat, full_cleaned_text, cat_idx,
                   top_clauses, categories_out, all_top_clauses, ai_summary, result,
                   fault, events, band_in, risk_level>>

----------------------------------------------------------------------------

Init == InitProcess \/ InitBand

Next ==
    \/ TagAndScore
    \/ AggregateCategory
    \/ SummarizeCategory
    \/ GlobalSummary
    \/ ReturnResult
    \/ DisplayRiskGauge
    \/ BandCall

Spec == Init /\ [][Next]_vars

----------------------------------------------------------------------------
(* Properties *)

InProcess ==
    pc \in {"start", "aggregate", "summarize", "global", "rollup", "done", "shown", "fault"}

\* the category entries built so far and those of the returned result
Entries == Range(categories_out) \cup Range(result.categories)

\* the clause records tagged into a category, in (page, sentence) order
Candidates(cat) == Get(per_cat, cat, <<>>)

CandidateTexts(cat) == {Candidates(cat)[i].text : i \in 1..Len(Candidates(cat))}

\* the place of a text's first occurrence among the candidates of a category
FirstIndex(cat, t) ==
    CHOOSE i \in 1..Len(Candidates(cat)) :
        Candidates(cat)[i].text = t /\ \A j \in 1..(i - 1) : Candidates(cat)[j].text # t

\* Low < Medium < High
BandOrder(r) == CASE r = "Low" -> 0 [] r = "Medium" -> 1 [] r = "High" -> 2


\* C1: process_document is total: whatever the pages and the config, the call
\* returns a result that carries ai_summary, categories, raw_text and
\* overall_risk_score, and no exception leaves it; a category that has keywords
\* but is not declared is ignored.
C1_Total ==
    /\ fault = "none"
    /\ pc # "fault"

\* the call ended in an exception that the summarizer raised
CollaboratorFault ==
    /\ pc = "fault"
    /\ events # <<>>
    /\ events[Len(events)][1] = "summarizer"

\* C2: whatever the summarizer does when called (raises, returns nothing, returns
\* a malformed value), _safe_summarize returns a string and never raises: every
\* summary of a category and of the document is a string, and process_document
\* never ends in an exception of the collaborator.
C2_SummarizerContained ==
    /\ ~CollaboratorFault
    /\ \A e \in Entries : e.category_summary.type = "str"
    /\ pc \in {"rollup", "done", "shown"} => ai_summary.type = "str"
    /\ pc \in {"done", "shown"} => result.ai_summary.type = "str"

\* a run that returned although the summarizer, called for a category and for the
\* document, failed
C2_Witness ==
    /\ pc = "done"
    /\ result.ai_summary = SummaryError
    /\ \E e \in Entries : e.category_summary \in {SummaryError, NoSummaryText}
    /\ \E i \in 1..Len(events) : events[i] = <<"summarizer", "global">>

\* C3: in every category entry no two bullets have the same text.
C3_NoDuplicateBullets ==
    \A e \in Entries :
        \A i, j \in 1..Len(e.bullets) :
            i # j => e.bullets[i].text # e.bullets[j].text

\* a returned category whose candidates repeat a text on one page and across pages
C3_Witness ==
    /\ pc = "done"
    /\ \E e \in Range(result.categories) :
        \E i, j, k \in 1..Len(Candidates(e.category)) :
            /\ i < j /\ j < k
            /\ Candidates(e.category)[i].text = Candidates(e.category)[j].text
            /\ Candidates(e.category)[j].text = Candidates(e.category)[k].text
            /\ Candidates(e.category)[i].provenance # Candidates(e.category)[j].provenance
            /\ Candidates(e.category)[j].provenance = Candidates(e.category)[k].provenance

\* C4: every category entry has at most 7 bullets, and at most as many bullets
\* as there are distinct candidate texts tagged into the category.
C4_BulletBounds ==
    \A e \in Entries :
        /\ Len(e.bullets) <= 7
        /\ Len(e.bullets) <= Cardinality(CandidateTexts(e.category))

\* a returned category with more than 7 distinct candidates
C4_Witness ==
    /\ pc = "done"
    /\ \E e \in Range(result.categories) :
        /\ Cardinality(CandidateTexts(e.category)) > 7
        /\ Len(e.bullets) = 7

\* the texts of the bullets of all categories of the result
SelectedTexts == UNION {{e.bullets[i].text : i \in 1..Len(e.bullets)} : e \in Range(result.categories)}

\* the risk of a selected text (a text has one score, hence one risk)
RiskOfText(t) ==
    LET e == CHOOSE e \in Range(result.categories) : \E i \in 1..Len(e.bullets) : e.bullets[i].text = t
    IN  e.bullets[CHOOSE i \in 1..Len(e.bullets) : e.bullets[i].text = t].risk

RECURSIVE WeightSum(_)
WeightSum(texts) ==
    IF texts = {} THEN 0
    ELSE LET t == CHOOSE t \in texts : TRUE
         IN  (CASE RiskOfText(t) = "High" -> 3 [] RiskOfText(t) = "Medium" -> 2 [] RiskOfText(t) = "Low" -> 1)
             + WeightSum(texts \ {t})

\* C5: overall_risk_score is 100 * (sum of the weights High=3, Medium=2, Low=1) /
\* (3 * number of clauses) over the selected clauses of all categories counted
\* once per text, and 0 when no clause is selected; it lies in [0, 100] and its
\* divisor is never zero.
C5_OverallRiskScore ==
    pc = "done" =>
        LET score == result.overall_risk_score
            n     == Cardinality(SelectedTexts)
        IN  /\ score.den > 0
            /\ 0 <= score.num
            /\ score.num <= 100 * score.den
            /\ n = 0 => score.num = 0
            /\ n > 0 => score.num * (3 * n) = 100 * WeightSum(SelectedTexts) * score.den

\* a result where one text is a bullet of two categories and the bullets have
\* all three risks
C5_Witness ==
    /\ pc = "done"
    /\ \E e1, e2 \in Range(result.categories) :
        /\ e1 # e2
        /\ \E i \in 1..Len(e1.bullets) : \E j \in 1..Len(e2.bullets) :
               e1.bullets[i].text = e2.bullets[j].text
    /\ {RiskOfText(t) : t \in SelectedTexts} = {"Low", "Medium", "High"}

\* the band the fixed thresholds give
BandIs(score, b) ==
    /\ b = "High" <=> score >= 6
    /\ b = "Medium" <=> (3 <= score /\ score < 6)
    /\ b = "Low" <=> score < 3

\* C6: band(score) is High exactly when score >= 6, Medium exactly when
\* 3 <= score < 6 and Low exactly when score < 3, negative scores and 0
\* included; so band is monotonic, and every clause of the output has
\* risk = band(score).
C6_BandThresholds ==
    /\ pc = "band_done" =>
          /\ BandIs(band_in[1], band_out[1])
          /\ BandIs(band_in[2], band_out[2])
          /\ band_in[1] <= band_in[2] => BandOrder(band_out[1]) <= BandOrder(band_out[2])
    /\ \A e \in Entries : \A i \in 1..Len(e.bullets) :
          BandIs(e.bullets[i].score, e.bullets[i].risk)

\* band called on a negative score and on the High threshold itself
C6_Witness ==
    /\ pc = "band_done"
    /\ band_in[1] < 0
    /\ band_in[2] = 6
    /\ band_out = <<"Low", "High">>

\* the trigger list the tagging result holds for a category: tag_sentence of
\* utils.py returns the bare category names, which hold none
TriggerList(linked, s, keywords, cat) ==
    IF linked = "src" THEN <<>>
    ELSE LET m == tagger(s, keywords)
         IN  IF \E i \in 1..Len(m) : m[i][1] = cat
             THEN m[CHOOSE i \in 1..Len(m) : m[i][1] = cat][2]
             ELSE <<>>

\* C7: for every sentence s, category c and keyword k of c with lower(k) a
\* substring of lower(s): tagging s gives c with k in c's trigger list, and the
\* clause record made for (s, c) has every such keyword in its rationale.
C7_TaggerComplete ==
    (InProcess /\ pc # "start") =>
        \A r \in Range(SentenceRecords(text_pages)) :
            \A c \in 1..Len(KeywordMap) :
                \A k \in Range(KeywordMap[c][2]) :
                    Contains(lower(r.text), lower(k)) =>
                        /\ k \in Range(TriggerList(helpers, r.text, KeywordMap, KeywordMap[c][1]))
                        /\ \E i \in 1..Len(Candidates(KeywordMap[c][1])) :
                              /\ Candidates(KeywordMap[c][1])[i].text = r.text
                              /\ k \in Range(Candidates(KeywordMap[c][1])[i].rationale)

\* C8: when a text is tagged into a category from several occurrences, the
\* record kept in bullets is the first occurrence: its provenance.location is
\* that of the first occurrence.
C8_FirstSeenKept ==
    \A e \in Entries : \A i \in 1..Len(e.bullets) :
        e.bullets[i].provenance.location =
            Candidates(e.category)[FirstIndex(e.category, e.bullets[i].text)].provenance.location

\* C9: category_risk is the highest risk among the entry's bullets.
C9_CategoryRiskIsMax ==
    \A e \in Entries :
        /\ \E i \in 1..Len(e.bullets) : e.bullets[i].risk = e.category_risk
        /\ \A i \in 1..Len(e.bullets) : BandOrder(e.bullets[i].risk) <= BandOrder(e.category_risk)

\* a returned category whose bullets have all three risks
C9_Witness ==
    /\ pc = "done"
    /\ \E e \in Range(result.categories) :
        {e.bullets[i].risk : i \in 1..Len(e.bullets)} = {"Low", "Medium", "High"}

\* The order of bullets on texts and scores alone, whichever occurrence of a
\* text is the record kept: scores never increase along bullets, bullets of
\* equal score are in the order of the first occurrences of their texts, N is
\* the smaller of 7 and the number of distinct candidates, and a candidate left
\* out neither scores higher than a bullet nor precedes a bullet of its own score.
C10_TopPrefixOfStableSort ==
    \A e \in Entries :
        LET b    == e.bullets
            kept == {b[i].text : i \in 1..Len(b)}
            c    == Candidates(e.category)
            n    == Cardinality(CandidateTexts(e.category))
        IN  /\ Len(b) = IF n < 7 THEN n ELSE 7
            /\ kept \subseteq CandidateTexts(e.category)
            /\ \A i, j \in 1..Len(b) : i < j =>
                  /\ b[i].score >= b[j].score
                  /\ b[i].score = b[j].score =>
                        FirstIndex(e.category, b[i].text) < FirstIndex(e.category, b[j].text)
            /\ \A x \in 1..Len(c) : c[x].text \notin kept =>
                  \A i \in 1..Len(b) :
                      /\ c[x].score <= b[i].score
                      /\ c[x].score = b[i].score =>
                            FirstIndex(e.category, b[i].text) < FirstIndex(e.category, c[x].text)

\* a returned category with more than 7 distinct candidates that were not in
\* score order, with a tie among the bullets and a candidate left out at the
\* score of a bullet
C10_Witness ==
    /\ pc = "done"
    /\ \E e \in Range(result.categories) :
        LET b == e.bullets
            c == Candidates(e.category)
        IN  /\ Cardinality(CandidateTexts(e.category)) > 7
            /\ \E x, y \in 1..Len(c) : x < y /\ c[x].score < c[y].score
            /\ \E i, j \in 1..Len(b) : i < j /\ b[i].score = b[j].score
            /\ \E x \in 1..Len(c) :
                  /\ \A i \in 1..Len(b) : b[i].text # c[x].text
                  /\ \E i \in 1..Len(b) : b[i].score = c[x].score

\* the names of the category entries of the result, in order
ResultCategoryNames == [i \in 1..Len(result.categories) |-> result.categories[i].category]

\* the entry of a category in the result, if any
EntriesOf(cat) == {e \in Range(result.categories) : e.category = cat}

\* C11 as stated: with categories declared in the config, the result's categories
\* are the declared categories, all of them and in the declared order; a
\* declared category with no selected clause is there with empty bullets and
\* category_risk Low.
C11_DeclaredCategoriesKept ==
    (pc = "done" /\ Categories # <<>>) =>
        /\ ResultCategoryNames = Categories
        /\ \A i \in 1..Len(result.categories) :
              Candidates(Categories[i]) = <<>> =>
                  /\ result.categories[i].bullets = <<>>
                  /\ result.categories[i].category_risk = "Low"

\* C11 amended: the result's categories are the declared categories that have
\* at least one tagged clause, each once per declaration and in the declared
\* order; a declared category with no tagged clause is omitted, and no entry
\* of the result has empty bullets.
C11_EmptyDeclaredOmitted ==
    pc = "done" =>
        /\ ResultCategoryNames = SelectSeq(Categories, LAMBDA c : Candidates(c) # <<>>)
        /\ \A e \in Range(result.categories) : e.bullets # <<>>
        /\ \A c \in Range(Categories) : Candidates(c) = <<>> => EntriesOf(c) = {}

\* a result of two entries for three declared categories, the declared order
\* not being that of the keyword map: one declared category is left out, and one
\* entry rests on a single candidate
C11_Witness ==
    /\ pc = "done"
    /\ Len(Categories) = 3
    /\ ResultCategoryNames = <<"Termination", "Data Sharing">>
    /\ EntriesOf("Refunds") = {}
    /\ Len(Candidates("Termination")) = 1
    /\ KeywordMap[1][1] = "Data Sharing"

\* the places of `events` where the summarizer is called
SummarizerCalls == {i \in 1..Len(events) : events[i][1] = "summarizer"}

\* the places of `events` where sentences are tagged and scored (lines 53-65) or
\* a category is sorted, deduplicated and cut to its top clauses (lines 70-73)
AggregationSteps == {i \in 1..Len(events) : events[i][1] \in {"tagged", "aggregated"}}

\* C12: tagging, scoring and the aggregation (sort, dedup, top-N) of all
\* categories are complete before the summarizer is called for the first time:
\* no tagging or aggregation step of any category comes after a summarizer call.
C12_AggregationBeforeSummarizer ==
    \A i \in SummarizerCalls : \A j \in AggregationSteps : j < i

\* C13: whenever at least one clause is selected in the document,
\* overall_risk_score is at least 100/3 and so above 33; hence the gauge shows
\* "Low Risk" only for a result without selected clauses, and a result whose
\* selected clauses are all Low is shown as "Moderate Risk".
C13_LowGaugeOnlyWithoutClauses ==
    /\ (pc \in {"done", "shown"} /\ SelectedTexts # {}) =>
          /\ 3 * result.overall_risk_score.num >= 100 * result.overall_risk_score.den
          /\ result.overall_risk_score.num > 33 * result.overall_risk_score.den
    /\ pc = "shown" =>
          /\ risk_level \in {"Low Risk", "Moderate Risk", "High Risk"}
          /\ risk_level = "Low Risk" => SelectedTexts = {}
          /\ (SelectedTexts # {} /\ \A t \in SelectedTexts : RiskOfText(t) = "Low") =>
                 risk_level = "Moderate Risk"

\* the gauge shown for a result whose selected clauses, seven of them, are
\* all Low
C13_Witness ==
    /\ pc = "shown"
    /\ Cardinality(SelectedTexts) = 7
    /\ \A t \in SelectedTexts : RiskOfText(t) = "Low"
    /\ result.overall_risk_score.num * 3 = 100 * result.overall_risk_score.den
    /\ risk_level = "Moderate Risk"

\* the places among the candidates of a category of the record a bullet is:
\* the same text found at the same location
PlacesOf(cat, bullet) ==
    {x \in 1..Len(Candidates(cat)) : Candidates(cat)[x] = bullet}

\* C10: bullets is the top-N prefix of the deduplicated candidates sorted by
\* descending score: scores never increase along bullets, bullets of equal
\* score are in the (page, sentence) order of the records they are, and no
\* candidate left out scores higher than a bullet.
C10_TiesKeepOriginalOrder ==
    \A e \in Entries :
        LET b    == e.bullets
            kept == {b[i].text : i \in 1..Len(b)}
            c    == Candidates(e.category)
            n    == Cardinality(CandidateTexts(e.category))
        IN  /\ Len(b) = IF n < 7 THEN n ELSE 7
            /\ \A i \in 1..Len(b) : PlacesOf(e.category, b[i]) # {}
            /\ \A i, j \in 1..Len(b) : i < j =>
                  /\ b[i].score >= b[j].score
                  /\ b[i].score = b[j].score =>
                        \E x \in PlacesOf(e.category, b[i]) :
                            \E y \in PlacesOf(e.category, b[j]) : x < y
            /\ \A x \in 1..Len(c) : c[x].text \notin kept =>
                  \A i \in 1..Len(b) : c[x].score <= b[i].score

============================================================================
